---------------------------- MODULE Spec2Model ----------------------------
(***************************************************************************)
(* Model of src/utils/QueryProcessor.tsx: the arithmetic evaluator         *)
(* evaluateExpression (tokenizer, shunting-yard, RPN evaluation) and its   *)
(* caller QueryProcessor.                                                  *)
(*                                                                         *)
(* A string is a sequence of one-character strings.  A JavaScript number   *)
(* is an exact rational <<n, d>> in lowest terms with d > 0; <<s, 0>>      *)
(* stands for the non-finite values (Infinity, -Infinity, NaN).  IEEE-754  *)
(* rounding is not modelled.                                               *)
(***************************************************************************)
EXTENDS Integers, Sequences, FiniteSets, TLC

VARIABLES
    expr,     \* the argument of evaluateExpression
    pc,       \* position in evaluateExpression
    i,        \* tokenizer scan index (1-based; the code's i + 1)
    tokens,   \* Token[]
    texts,    \* history: the source text each token was made from
    output,   \* shunting-yard output queue
    ops,      \* shunting-yard operator stack
    k,        \* index of the token the shunting-yard loop is at
    stack,    \* RPN operand stack
    r,        \* index of the output token the RPN loop is at
    result,   \* <<>> or <<v>>: the value evaluateExpression returned
    error,    \* "" or the message of the Error evaluateExpression threw
    query,    \* the argument of QueryProcessor
    qpc,      \* position in QueryProcessor
    response  \* <<>> or <<s>>: the value QueryProcessor returned

vars == <<expr, pc, i, tokens, texts, output, ops, k, stack, r, result, error,
          query, qpc, response>>

evalVars == <<expr, pc, i, tokens, texts, output, ops, k, stack, r, result, error>>

qpVars == <<query, qpc, response>>

(***************************************************************************)
(* Bounds                                                                  *)
(***************************************************************************)
MaxLen == 4

(***************************************************************************)
(* Characters                                                              *)
(***************************************************************************)
Digits == {"0", "1", "2", "3", "4", "5", "6", "7", "8", "9"}

NumChars == Digits \cup {"."}

OpChars == {"+", "-", "*", "/"}

ParenChars == {"(", ")"}

DigitVal(c) ==
    CASE c = "0" -> 0 [] c = "1" -> 1 [] c = "2" -> 2 [] c = "3" -> 3
      [] c = "4" -> 4 [] c = "5" -> 5 [] c = "6" -> 6 [] c = "7" -> 7
      [] c = "8" -> 8 [] c = "9" -> 9

(***************************************************************************)
(* Numbers                                                                 *)
(***************************************************************************)
Abs(x) == IF x < 0 THEN -x ELSE x

Sign(x) == IF x < 0 THEN -1 ELSE IF x > 0 THEN 1 ELSE 0

RECURSIVE GCD(_, _)
GCD(a, b) == IF b = 0 THEN a ELSE GCD(b, a % b)

Rat(n, d) ==
    IF d = 0 THEN <<Sign(n), 0>>
    ELSE LET g == GCD(Abs(n), Abs(d))
             s == IF d < 0 THEN -1 ELSE 1
         IN  <<(s * n) \div g, (s * d) \div g>>

Zero == Rat(0, 1)

IntNum(n) == Rat(n, 1)

Plus(a, b) == Rat(a[1] * b[2] + b[1] * a[2], a[2] * b[2])

Minus(a, b) == Rat(a[1] * b[2] - b[1] * a[2], a[2] * b[2])

Times(a, b) == Rat(a[1] * b[1], a[2] * b[2])

Divide(a, b) == Rat(a[1] * b[2], a[2] * b[1])

IsFinite(a) == a[2] # 0

IsInteger(a) == a[2] = 1

RECURSIVE Pow10(_)
Pow10(n) == IF n = 0 THEN 1 ELSE 10 * Pow10(n - 1)

RECURSIVE CountOf(_, _)
CountOf(s, cs) ==
    IF s = <<>> THEN 0
    ELSE (IF Head(s) \in cs THEN 1 ELSE 0) + CountOf(Tail(s), cs)

RECURSIVE DigitsValue(_, _)
DigitsValue(s, acc) ==
    IF s = <<>> THEN acc
    ELSE IF Head(s) \in Digits
         THEN DigitsValue(Tail(s), 10 * acc + DigitVal(Head(s)))
         ELSE DigitsValue(Tail(s), acc)

RECURSIVE FracDigits(_)
FracDigits(s) ==
    IF s = <<>> THEN 0
    ELSE IF Head(s) = "." THEN CountOf(Tail(s), Digits)
    ELSE FracDigits(Tail(s))

\* Mutant: the Number.isNaN test is missing.
IsNaN_Unchecked(numStr) == FALSE

\* Mutant: only a run without a digit is rejected (as parseFloat would).
IsNaN_DotsUnchecked(numStr) == CountOf(numStr, Digits) = 0

\* Number(numStr) is NaN: numStr is an optional '-' and then characters of
\* [0-9.], which is a numeric literal iff it has a digit and at most one '.'.
IsNaN(numStr) ==
    \/ CountOf(numStr, Digits) = 0
    \/ CountOf(numStr, {"."}) > 1

\* Number(numStr) when it is not NaN.
Number(numStr) ==
    LET neg == numStr # <<>> /\ Head(numStr) = "-"
        n   == DigitsValue(numStr, 0)
    IN  Rat(IF neg THEN -n ELSE n, Pow10(FracDigits(numStr)))

(***************************************************************************)
(* Tokens                                                                  *)
(***************************************************************************)
NumberTok(v) == [type |-> "number", value |-> v]

OpTok(c) == [type |-> "op", value |-> c]

ParenTok(c) == [type |-> "paren", value |-> c]

IsOp(t) == t.type = "op"

IsNumber(t) == t.type = "number"

IsOpen(t) == t.type = "paren" /\ t.value = "("

IsClose(t) == t.type = "paren" /\ t.value = ")"

precedence(op) == IF op = "+" \/ op = "-" THEN 1 ELSE 2

Last(s) == s[Len(s)]

Front(s) == SubSeq(s, 1, Len(s) - 1)

len == Len(expr)

\* The end (exclusive) of the maximal run of [0-9.] that starts at j.
RECURSIVE RunEnd(_, _)
RunEnd(s, j) ==
    IF j <= Len(s) /\ s[j] \in NumChars THEN RunEnd(s, j + 1) ELSE j

Throw(msg) ==
    /\ pc' = "done"
    /\ error' = msg
    /\ result' = <<>>

(***************************************************************************)
(* evaluateExpression: the tokenizer loop                                  *)
(***************************************************************************)
Emit(t, text, next) ==
    /\ tokens' = Append(tokens, t)
    /\ texts' = Append(texts, text)
    /\ i' = next
    /\ UNCHANGED <<pc, result, error>>

TokParen ==
    /\ pc = "tokenize" /\ i <= len
    /\ expr[i] \in ParenChars
    /\ Emit(ParenTok(expr[i]), <<expr[i]>>, i + 1)
    /\ UNCHANGED <<expr, output, ops, k, stack, r>>
    /\ UNCHANGED qpVars

\* Mutant: a '-' after '(' is no longer read as a sign.
SignPosition_NoParen(toks) ==
    \/ toks = <<>>
    \/ IsOp(Last(toks))

\* "at start or previous token is an operator or '('"
SignPosition(toks) ==
    \/ toks = <<>>
    \/ IsOp(Last(toks))
    \/ IsOpen(Last(toks))

TokOperator ==
    /\ pc = "tokenize" /\ i <= len
    /\ expr[i] \in OpChars
    /\ LET ch == expr[i]
           j  == RunEnd(expr, i + 1)
           numStr == SubSeq(expr, i, j - 1)
       IN  IF ch = "-" /\ SignPosition(tokens)
           THEN IF numStr = <<"-">>
                THEN Emit(OpTok(ch), <<ch>>, i + 1)
                ELSE IF IsNaN(numStr)
                     THEN Throw("Invalid number")
                          /\ UNCHANGED <<tokens, texts, i>>
                     ELSE Emit(NumberTok(Number(numStr)), numStr, j)
           ELSE Emit(OpTok(ch), <<ch>>, i + 1)
    /\ UNCHANGED <<expr, output, ops, k, stack, r>>
    /\ UNCHANGED qpVars

TokNumber ==
    /\ pc = "tokenize" /\ i <= len
    /\ expr[i] \notin ParenChars /\ expr[i] \notin OpChars
    /\ LET j == RunEnd(expr, i)
           numStr == SubSeq(expr, i, j - 1)
       IN  IF expr[i] \in NumChars
           THEN IF IsNaN(numStr)
                THEN Throw("Invalid number")
                     /\ UNCHANGED <<tokens, texts, i>>
                ELSE Emit(NumberTok(Number(numStr)), numStr, j)
           ELSE Throw("Invalid character in expression")
                /\ UNCHANGED <<tokens, texts, i>>
    /\ UNCHANGED <<expr, output, ops, k, stack, r>>
    /\ UNCHANGED qpVars

TokDone ==
    /\ pc = "tokenize" /\ i > len
    /\ pc' = "shunt"
    /\ UNCHANGED <<expr, i, tokens, texts, output, ops, k, stack, r, result, error>>
    /\ UNCHANGED qpVars

(***************************************************************************)
(* evaluateExpression: shunting-yard                                       *)
(***************************************************************************)
ShuntNumber ==
    /\ pc = "shunt" /\ k <= Len(tokens)
    /\ IsNumber(tokens[k])
    /\ output' = Append(output, tokens[k])
    /\ k' = k + 1
    /\ UNCHANGED <<expr, pc, i, tokens, texts, ops, stack, r, result, error>>
    /\ UNCHANGED qpVars

\* Mutant: equal precedence no longer pops (right-associative grouping).
PopsBefore_Strict(top, t) ==
    /\ IsOp(top)
    /\ precedence(top.value) > precedence(t.value)

\* The while loop's test for an operator token t: the top of ops is popped.
PopsBefore(top, t) ==
    /\ IsOp(top)
    /\ \/ precedence(top.value) > precedence(t.value)
       \/ precedence(top.value) = precedence(t.value)

\* Mutant: the pending operator is copied to the output but never popped.
ShuntOpPop_NoPop ==
    /\ pc = "shunt" /\ k <= Len(tokens)
    /\ IsOp(tokens[k])
    /\ ops # <<>> /\ PopsBefore(Last(ops), tokens[k])
    /\ output' = Append(output, Last(ops))
    /\ UNCHANGED <<expr, pc, i, tokens, texts, ops, k, stack, r, result, error>>
    /\ UNCHANGED qpVars

ShuntOpPop ==
    /\ pc = "shunt" /\ k <= Len(tokens)
    /\ IsOp(tokens[k])
    /\ ops # <<>> /\ PopsBefore(Last(ops), tokens[k])
    /\ output' = Append(output, Last(ops))
    /\ ops' = Front(ops)
    /\ UNCHANGED <<expr, pc, i, tokens, texts, k, stack, r, result, error>>
    /\ UNCHANGED qpVars

ShuntOpPush ==
    /\ pc = "shunt" /\ k <= Len(tokens)
    /\ IsOp(tokens[k])
    /\ ~(ops # <<>> /\ PopsBefore(Last(ops), tokens[k]))
    /\ ops' = Append(ops, tokens[k])
    /\ k' = k + 1
    /\ UNCHANGED <<expr, pc, i, tokens, texts, output, stack, r, result, error>>
    /\ UNCHANGED qpVars

ShuntOpen ==
    /\ pc = "shunt" /\ k <= Len(tokens)
    /\ IsOpen(tokens[k])
    /\ ops' = Append(ops, tokens[k])
    /\ k' = k + 1
    /\ UNCHANGED <<expr, pc, i, tokens, texts, output, stack, r, result, error>>
    /\ UNCHANGED qpVars

ShuntCloseMove ==
    /\ pc = "shunt" /\ k <= Len(tokens)
    /\ IsClose(tokens[k])
    /\ ops # <<>> /\ ~IsOpen(Last(ops))
    /\ output' = Append(output, Last(ops))
    /\ ops' = Front(ops)
    /\ UNCHANGED <<expr, pc, i, tokens, texts, k, stack, r, result, error>>
    /\ UNCHANGED qpVars

ShuntCloseMatch ==
    /\ pc = "shunt" /\ k <= Len(tokens)
    /\ IsClose(tokens[k])
    /\ ops # <<>> /\ IsOpen(Last(ops))
    /\ ops' = Front(ops)
    /\ k' = k + 1
    /\ UNCHANGED <<expr, pc, i, tokens, texts, output, stack, r, result, error>>
    /\ UNCHANGED qpVars

ShuntCloseFail ==
    /\ pc = "shunt" /\ k <= Len(tokens)
    /\ IsClose(tokens[k])
    /\ ops = <<>>
    /\ Throw("Mismatched parentheses")
    /\ UNCHANGED <<expr, i, tokens, texts, output, ops, k, stack, r>>
    /\ UNCHANGED qpVars

ShuntDone ==
    /\ pc = "shunt" /\ k > Len(tokens)
    /\ pc' = "drain"
    /\ UNCHANGED <<expr, i, tokens, texts, output, ops, k, stack, r, result, error>>
    /\ UNCHANGED qpVars

DrainPop ==
    /\ pc = "drain" /\ ops # <<>>
    /\ Last(ops).type # "paren"
    /\ output' = Append(output, Last(ops))
    /\ ops' = Front(ops)
    /\ UNCHANGED <<expr, pc, i, tokens, texts, k, stack, r, result, error>>
    /\ UNCHANGED qpVars

\* Mutant: a parenthesis left on the stack is moved to the output, not rejected.
DrainFail_Unchecked ==
    /\ pc = "drain" /\ ops # <<>>
    /\ Last(ops).type = "paren"
    /\ output' = Append(output, Last(ops))
    /\ ops' = Front(ops)
    /\ UNCHANGED <<expr, pc, i, tokens, texts, k, stack, r, result, error>>
    /\ UNCHANGED qpVars

DrainFail ==
    /\ pc = "drain" /\ ops # <<>>
    /\ Last(ops).type = "paren"
    /\ Throw("Mismatched parentheses")
    /\ ops' = Front(ops)
    /\ UNCHANGED <<expr, i, tokens, texts, output, k, stack, r>>
    /\ UNCHANGED qpVars

DrainDone ==
    /\ pc = "drain" /\ ops = <<>>
    /\ pc' = "rpn"
    /\ UNCHANGED <<expr, i, tokens, texts, output, ops, k, stack, r, result, error>>
    /\ UNCHANGED qpVars

(***************************************************************************)
(* evaluateExpression: RPN evaluation                                      *)
(***************************************************************************)
RpnNumber ==
    /\ pc = "rpn" /\ r <= Len(output)
    /\ IsNumber(output[r])
    /\ stack' = Append(stack, output[r].value)
    /\ r' = r + 1
    /\ UNCHANGED <<expr, pc, i, tokens, texts, output, ops, k, result, error>>
    /\ UNCHANGED qpVars

\* The switch on t.value, entered with both operands defined.
Apply(op, a, b) ==
    CASE op = "+" -> Plus(a, b)
      [] op = "-" -> Minus(a, b)
      [] op = "*" -> Times(a, b)
      [] op = "/" -> Divide(a, b)

\* Mutant: the zero test is missing.
DivisionByZero_Unchecked(op, b) == FALSE

DivisionByZero(op, b) == op = "/" /\ b = Zero

RpnOperator ==
    /\ pc = "rpn" /\ r <= Len(output)
    /\ ~IsNumber(output[r])
    /\ IF IsOp(output[r])
       THEN IF Len(stack) < 2
            THEN /\ Throw("Invalid expression")
                 /\ stack' = <<>>
                 /\ UNCHANGED r
            ELSE LET b == stack[Len(stack)]
                     a == stack[Len(stack) - 1]
                     rest == SubSeq(stack, 1, Len(stack) - 2)
                 IN  IF DivisionByZero(output[r].value, b)
                     THEN /\ Throw("Division by zero")
                          /\ stack' = rest
                          /\ UNCHANGED r
                     ELSE /\ stack' = Append(rest, Apply(output[r].value, a, b))
                          /\ r' = r + 1
                          /\ UNCHANGED <<pc, result, error>>
       ELSE /\ r' = r + 1
            /\ UNCHANGED <<pc, stack, result, error>>
    /\ UNCHANGED <<expr, i, tokens, texts, output, ops, k>>
    /\ UNCHANGED qpVars

RpnDone ==
    /\ pc = "rpn" /\ r > Len(output)
    /\ IF Len(stack) # 1
       THEN Throw("Invalid expression")
       ELSE /\ pc' = "done"
            /\ result' = <<stack[1]>>
            /\ error' = ""
    /\ UNCHANGED <<expr, i, tokens, texts, output, ops, k, stack, r>>
    /\ UNCHANGED qpVars

(***************************************************************************)
(* Inputs                                                                  *)
(***************************************************************************)
\* Every string of at most MaxLen characters over Alphabet, and longer
\* expressions of a few shapes over ShapeDigits.
Alphabet == {"0", "3", ".", "(", ")", "-", "/"}

ShapeDigits == {"0", "2", "3"}

Strings(A, n) == UNION {[1..m -> A] : m \in 0..n}

Shaped ==
    UNION { { <<a, o1, b, o2, c>>,
              <<"(", a, o1, b, ")", o2, c>>,
              <<a, o1, "(", b, o2, c, ")">>,
              <<"-", "(", a, o1, b, ")">>,
              <<"-", "(", a, ")", b>> } :
            <<a, b, c, o1, o2>> \in ShapeDigits \X ShapeDigits \X ShapeDigits
                                     \X OpChars \X OpChars }

Examples ==
    { <<"2", "+", "3", "*", "4">>, <<"(", "2", "+", "3", ")", "*", "4">>,
      <<"8", "-", "3", "-", "2">>, <<"2", "0", "/", "4", "/", "5">>,
      <<"7", "/", "2">>, <<"5", "/", "0">>, <<"5", "/", "(", "3", "-", "3", ")">>,
      <<"5", "-", "1", "2">>, <<"-", "3", "+", "5">>, <<"2", "*", "-", "3">>,
      <<"-", "(", "3", "+", "5", ")">>, <<"1", ".", "2", ".", "3">>,
      <<"2", "(", ")">>, <<"2", "+", "(", ")", "3">>, <<"2", "(", "3", ")", "+">>,
      <<"(", "2", "+", "3">>, <<"2", "+", "3", ")">> }

Inputs == Strings(Alphabet, MaxLen) \cup Shaped \cup Examples

Enter(e) ==
    /\ expr = e
    /\ pc = "tokenize"
    /\ i = 1
    /\ tokens = <<>>
    /\ texts = <<>>
    /\ output = <<>>
    /\ ops = <<>>
    /\ k = 1
    /\ stack = <<>>
    /\ r = 1
    /\ result = <<>>
    /\ error = ""

Init ==
    /\ \E e \in Inputs : Enter(e)
    /\ query = <<>>
    /\ qpc = "none"
    /\ response = <<>>

Next ==
    \/ TokParen \/ TokOperator \/ TokNumber \/ TokDone
    \/ ShuntNumber \/ ShuntOpPop \/ ShuntOpPush \/ ShuntOpen
    \/ ShuntCloseMove \/ ShuntCloseMatch \/ ShuntCloseFail \/ ShuntDone
    \/ DrainPop \/ DrainFail \/ DrainDone
    \/ RpnNumber \/ RpnOperator \/ RpnDone

Spec == Init /\ [][Next]_vars

\* evaluateExpression is sequential code: a step that can be taken is taken.
FairSpec == Spec /\ WF_vars(Next)

(***************************************************************************)
(* QueryProcessor.  A query is a sequence of atoms: one-character strings  *)
(* (digits, symbols, the space) and whole words.                           *)
(***************************************************************************)
Words == {"What", "Which", "is", "of", "the", "following", "numbers", "test",
          "Shakespeare", "gameid", "playerid", "your name", "name",
          "my andrewid", "largest", "plus", "minus", "times", "divided by"}

\* toLowerCase
Lower(a) ==
    CASE a = "What" -> "what"
      [] a = "Which" -> "which"
      [] a = "Shakespeare" -> "shakespeare"
      [] OTHER -> a

\* lower.includes(kw)
Includes(q, kw) ==
    \E n \in 1..Len(q) :
        \/ Lower(q[n]) = kw
        \/ kw = "name" /\ Lower(q[n]) = "your name"

\* \b before and after atom n: neither neighbour is a word character
IsWordChar(a) == a \in Digits \cup Words

Bounded(q, n) ==
    /\ (n = 1 \/ ~IsWordChar(q[n - 1]))
    /\ (n = Len(q) \/ ~IsWordChar(q[n + 1]))

\* the four replace calls: operator words become symbols
Preprocess(q) ==
    [n \in 1..Len(q) |->
        IF ~Bounded(q, n) THEN q[n]
        ELSE CASE q[n] = "plus" -> "+"
               [] q[n] = "minus" -> "-"
               [] q[n] = "times" -> "*"
               [] q[n] = "divided by" -> "/"
               [] OTHER -> q[n]]

ExprChars == Digits \cup OpChars \cup ParenChars \cup {"."}

\* the end (exclusive) of the run of atoms in cs that starts at j
RECURSIVE SpanEnd(_, _, _)
SpanEnd(s, j, cs) ==
    IF j <= Len(s) /\ s[j] \in cs THEN SpanEnd(s, j + 1, cs) ELSE j

\* preprocess.match(/[0-9(][0-9+\-*/().\s]*/): <<>> or <<the match>>
MathCandidateMatch(s) ==
    IF \E n \in 1..Len(s) : s[n] \in Digits \cup {"("}
    THEN LET b == CHOOSE n \in 1..Len(s) :
                      /\ s[n] \in Digits \cup {"("}
                      /\ \A m \in 1..(n - 1) : s[m] \notin Digits \cup {"("}
         IN  <<SubSeq(s, b, SpanEnd(s, b + 1, ExprChars \cup {" "}) - 1)>>
    ELSE <<>>

\* trim() and replace(/\s+/g, "")
StripSpaces(s) == SelectSeq(s, LAMBDA a : a # " ")

\* /^[0-9+\-*/().]+$/.test(expr)
ValidChars(e) == e # <<>> /\ \A n \in 1..Len(e) : e[n] \in ExprChars

\* the matches of /-?\d+\.?\d*/g in q from position p on, each converted
\* with Number.  b is where the match being read began; st is what was read
\* of it: 0 nothing, 1 the '-', 2 integer digits, 3 the '.' and fraction digits.
RECURSIVE ScanNumbers(_, _, _, _)
ScanNumbers(q, p, b, st) ==
    IF p > Len(q)
    THEN IF st >= 2 THEN <<Number(SubSeq(q, b, Len(q)))>> ELSE <<>>
    ELSE IF q[p] \in Digits
         THEN ScanNumbers(q, p + 1, IF st = 0 THEN p ELSE b, IF st = 3 THEN 3 ELSE 2)
    ELSE IF st = 2 /\ q[p] = "."
         THEN ScanNumbers(q, p + 1, b, 3)
    ELSE IF st >= 2
         THEN <<Number(SubSeq(q, b, p - 1))>> \o ScanNumbers(q, p, 0, 0)
    ELSE IF q[p] = "-"
         THEN ScanNumbers(q, p + 1, p, 1)
    ELSE ScanNumbers(q, p + 1, 0, 0)

MatchNumbers(q) == ScanNumbers(q, 1, 0, 0)

Less(a, b) == a[1] * b[2] < b[1] * a[2]

\* Math.max(...nums), nums not empty
Max(nums) ==
    nums[CHOOSE n \in 1..Len(nums) : \A m \in 1..Len(nums) : ~Less(nums[n], nums[m])]

\* The string a number is returned as: String(v) for an integer, else
\* v.toFixed(10) with its trailing zeros trimmed.  The digits are not modelled.
NumberText(v) ==
    [kind |-> "number", value |-> v,
     form |-> IF IsInteger(v) THEN "integer" ELSE "fixed10"]

Text(str) == [kind |-> "text", value |-> str]

\* the keyword handlers and the final return ""
KeywordResponse(q) ==
    IF Includes(q, "shakespeare") THEN Text("William Shakespeare ...")
    ELSE IF Includes(q, "gameid") THEN Text("5f34a61a")
    ELSE IF Includes(q, "playerid") THEN Text("97b91e1a")
    ELSE IF Includes(q, "your name") THEN Text("Rohan")
    ELSE IF Includes(q, "name") THEN Text("andremildeluxe")
    ELSE IF Includes(q, "my andrewid") THEN Text("andremil")
    ELSE Text("")

LargestReturns(q) == Includes(q, "largest") /\ MatchNumbers(q) # <<>>

Candidate(q) == MathCandidateMatch(Preprocess(q))

CallsEvaluate(q) ==
    /\ Candidate(q) # <<>>
    /\ ValidChars(StripSpaces(Candidate(q)[1]))

Return(v) ==
    /\ qpc' = "returned"
    /\ response' = <<v>>
    /\ UNCHANGED query

QPLargest ==
    /\ qpc = "start"
    /\ LargestReturns(query)
    /\ Return(NumberText(Max(MatchNumbers(query))))
    /\ UNCHANGED evalVars

QPEvaluate ==
    /\ qpc = "start"
    /\ ~LargestReturns(query)
    /\ CallsEvaluate(query)
    /\ qpc' = "eval"
    /\ expr' = StripSpaces(Candidate(query)[1])
    /\ pc' = "tokenize"
    /\ UNCHANGED <<i, tokens, texts, output, ops, k, stack, r, result, error>>
    /\ UNCHANGED <<query, response>>

QPNoExpression ==
    /\ qpc = "start"
    /\ ~LargestReturns(query)
    /\ ~CallsEvaluate(query)
    /\ Return(KeywordResponse(query))
    /\ UNCHANGED evalVars

QPReturnValue ==
    /\ qpc = "eval" /\ pc = "done"
    /\ error = "" /\ IsFinite(result[1])
    /\ Return(NumberText(result[1]))
    /\ UNCHANGED evalVars

\* Mutant: no try/catch around the call, the Error leaves QueryProcessor.
QPFallThrough_Uncaught ==
    /\ qpc = "eval" /\ pc = "done"
    /\ ~(error = "" /\ IsFinite(result[1]))
    /\ IF error # ""
       THEN qpc' = "threw" /\ UNCHANGED <<query, response>>
       ELSE Return(KeywordResponse(query))
    /\ UNCHANGED evalVars

\* the catch block, or a value that is not finite: on to the keyword handlers
QPFallThrough ==
    /\ qpc = "eval" /\ pc = "done"
    /\ ~(error = "" /\ IsFinite(result[1]))
    /\ Return(KeywordResponse(query))
    /\ UNCHANGED evalVars

MaxQuery == 3

QueryAlphabet == {"0", "3", "(", ")", "/", "-", " ", "plus"}

Prefixes ==
    {<<>>, <<"What", " ">>, <<"largest", " ">>, <<"your name", " ">>, <<"name">>}

\* The queries of the repository's tests, and queries that hold a keyword
\* and an expression.
ExampleQueries ==
    { <<"test">>, <<"Shakespeare">>,
      <<"What", " ", "is", " ", "your name", "?">>,
      <<"What", " ", "is", " ", "my andrewid", "?">>,
      <<"What", " ", "is", " ", "9", "8", " ", "+", " ", "5", "2", "?">>,
      <<"What", " ", "is", " ", "5", " ", "-", " ", "1", "2", "?">>,
      <<"What", " ", "is", " ", "2", " ", "+", " ", "3", " ", "*", " ", "4", "?">>,
      <<"What", " ", "is", " ", "(", "2", " ", "+", " ", "3", ")", " ", "*", " ", "4", "?">>,
      <<"What", " ", "is", " ", "7", " ", "/", " ", "2", "?">>,
      <<"What", " ", "is", " ", "4", "5", " ", "plus", " ", "5", "3", "?">>,
      <<"Which", " ", "of", " ", "the", " ", "following", " ", "numbers", " ",
        "is", " ", "the", " ", "largest", ":", " ",
        "1", "9", ",", " ", "2", "7", ",", " ", "4", "4", "?">>,
      <<"4", "5", "plus", "5", "3">>,
      <<"2", " ", "times", " ", "-", "3">>,
      <<"your name", " ", "5", " ", "divided by", " ",
        "(", "3", " ", "minus", " ", "3", ")", "?">>,
      <<"Shakespeare", " ", "1", ".", "2", ".", "3">>,
      <<"gameid", " ", "(", "2", "+", "3">>,
      <<"playerid", " ", "2", "+", "3", ")">>,
      <<"my andrewid", " ", "3", "+">>,
      <<"-", "(", "3", ")", "3">>, <<"2", "(", ")">> }

Queries ==
    { a \o b : <<a, b>> \in Prefixes \X Strings(QueryAlphabet, MaxQuery) }
        \cup ExampleQueries

InitQP ==
    /\ \E q \in Queries : query = q
    /\ qpc = "start"
    /\ response = <<>>
    /\ expr = <<>>
    /\ pc = "idle"
    /\ i = 1
    /\ tokens = <<>>
    /\ texts = <<>>
    /\ output = <<>>
    /\ ops = <<>>
    /\ k = 1
    /\ stack = <<>>
    /\ r = 1
    /\ result = <<>>
    /\ error = ""

NextQP ==
    \/ QPLargest \/ QPEvaluate \/ QPNoExpression \/ QPReturnValue \/ QPFallThrough
    \/ TokParen \/ TokOperator \/ TokNumber \/ TokDone
    \/ ShuntNumber \/ ShuntOpPop \/ ShuntOpPush \/ ShuntOpen
    \/ ShuntCloseMove \/ ShuntCloseMatch \/ ShuntCloseFail \/ ShuntDone
    \/ DrainPop \/ DrainFail \/ DrainDone
    \/ RpnNumber \/ RpnOperator \/ RpnDone

SpecQP == InitQP /\ [][NextQP]_vars

(***************************************************************************)
(* Reference semantics: a recursive-descent reading of the token sequence  *)
(*   E ::= T (('+' | '-') T)*    T ::= F (('*' | '/') F)*                  *)
(*   F ::= Number | '(' E ')'                                              *)
(* Each function returns the position after what it read (0: no parse),    *)
(* whether a division by zero happened, and the value.                     *)
(***************************************************************************)
NoParse == [pos |-> 0, dz |-> FALSE, val |-> Zero]

IsOpIn(ts, p, cs) == p <= Len(ts) /\ IsOp(ts[p]) /\ ts[p].value \in cs

RefApply(op, x, y) ==
    IF op = "/" /\ y.val[1] = 0 THEN [pos |-> y.pos, dz |-> TRUE, val |-> Zero]
    ELSE [pos |-> y.pos, dz |-> x.dz \/ y.dz,
          val |-> CASE op = "+" -> Plus(x.val, y.val)
                    [] op = "-" -> Minus(x.val, y.val)
                    [] op = "*" -> Times(x.val, y.val)
                    [] op = "/" -> Divide(x.val, y.val)]

RECURSIVE RefE(_, _), RefERest(_, _), RefT(_, _), RefTRest(_, _), RefF(_, _)
RefF(ts, p) ==
    IF p > Len(ts) THEN NoParse
    ELSE IF IsNumber(ts[p]) THEN [pos |-> p + 1, dz |-> FALSE, val |-> ts[p].value]
    ELSE IF IsOpen(ts[p])
         THEN LET e == RefE(ts, p + 1)
              IN  IF e.pos # 0 /\ e.pos <= Len(ts) /\ IsClose(ts[e.pos])
                  THEN [e EXCEPT !.pos = e.pos + 1]
                  ELSE NoParse
    ELSE NoParse

RefTRest(ts, x) ==
    IF IsOpIn(ts, x.pos, {"*", "/"})
    THEN LET y == RefF(ts, x.pos + 1)
         IN  IF y.pos = 0 THEN NoParse
             ELSE RefTRest(ts, IF x.dz THEN [x EXCEPT !.pos = y.pos]
                                ELSE RefApply(ts[x.pos].value, x, y))
    ELSE x

RefT(ts, p) ==
    LET x == RefF(ts, p) IN IF x.pos = 0 THEN NoParse ELSE RefTRest(ts, x)

RefERest(ts, x) ==
    IF IsOpIn(ts, x.pos, {"+", "-"})
    THEN LET y == RefT(ts, x.pos + 1)
         IN  IF y.pos = 0 THEN NoParse
             ELSE RefERest(ts, IF x.dz THEN [x EXCEPT !.pos = y.pos]
                                ELSE RefApply(ts[x.pos].value, x, y))
    ELSE x

RefE(ts, p) ==
    LET x == RefT(ts, p) IN IF x.pos = 0 THEN NoParse ELSE RefERest(ts, x)

WellFormed(ts) == RefE(ts, 1).pos = Len(ts) + 1

Tokenized == pc # "tokenize" /\ i > len

SameTok(s, t) == s.type = t.type /\ s.value = t.value

SameSeq(s, t) ==
    /\ Len(s) = Len(t)
    /\ \A n \in 1..Len(s) : SameTok(s[n], t[n])

Converted == pc = "rpn" \/ (pc = "done" /\ error # "Mismatched parentheses" /\ Tokenized)

IsInfix3(ts) ==
    /\ Len(ts) = 5
    /\ IsNumber(ts[1]) /\ IsOp(ts[2]) /\ IsNumber(ts[3]) /\ IsOp(ts[4])
    /\ IsNumber(ts[5])

Is(e) == pc = "done" /\ expr = e

\* C1: on a well-formed token sequence evaluateExpression returns the value
\* of the reference reading (* and / bind tighter than + and -, equal
\* precedence groups from the left, a parenthesised group first), throwing
\* 'Division by zero' exactly when the reference reading divides by zero;
\* and the postfix form of a op1 b op2 c is a b c op2 op1 when op2 binds
\* strictly tighter than op1 and a b op1 c op2 otherwise.
C1_MatchesReference ==
    /\ Is(<<"2", "+", "3", "*", "4">>) => result = <<IntNum(14)>>
    /\ Is(<<"(", "2", "+", "3", ")", "*", "4">>) => result = <<IntNum(20)>>
    /\ Is(<<"8", "-", "3", "-", "2">>) => result = <<IntNum(3)>>
    /\ Is(<<"2", "0", "/", "4", "/", "5">>) => result = <<IntNum(1)>>
    /\ (pc = "done" /\ Tokenized /\ WellFormed(tokens)) =>
          LET ref == RefE(tokens, 1)
          IN  IF ref.dz
              THEN error = "Division by zero" /\ result = <<>>
              ELSE error = "" /\ result = <<ref.val>>
    /\ (Converted /\ IsInfix3(tokens)) =>
          SameSeq(output,
                  IF precedence(tokens[4].value) > precedence(tokens[2].value)
                  THEN <<tokens[1], tokens[3], tokens[5], tokens[4], tokens[2]>>
                  ELSE <<tokens[1], tokens[3], tokens[2], tokens[5], tokens[4]>>)

C1_Witness ==
    /\ Is(<<"(", "2", "+", "3", ")", "*", "4">>)
    /\ WellFormed(tokens)
    /\ result = <<IntNum(20)>>

\* The nesting depth after the first n tokens.
RECURSIVE Depth(_, _)
Depth(ts, n) ==
    IF n = 0 THEN 0
    ELSE Depth(ts, n - 1) + (IF IsOpen(ts[n]) THEN 1 ELSE IF IsClose(ts[n]) THEN -1 ELSE 0)

Unbalanced(ts) ==
    \/ \E n \in 1..Len(ts) : Depth(ts, n) < 0
    \/ Depth(ts, Len(ts)) # 0

\* C2: once the tokenizer has produced the token sequence, the call fails
\* with 'Mismatched parentheses' if and only if some prefix has more ')'
\* than '(' or a '(' is left unclosed; the RPN stage is entered only with
\* balanced parentheses, and (2+3 and 2+3) both fail with that error.
C2_MismatchedIffUnbalanced ==
    /\ (pc = "done" /\ Tokenized) =>
          (error = "Mismatched parentheses" <=> Unbalanced(tokens))
    /\ pc = "rpn" => ~Unbalanced(tokens)
    /\ error = "Mismatched parentheses" => Tokenized /\ result = <<>>
    /\ Is(<<"(", "2", "+", "3">>) => error = "Mismatched parentheses"
    /\ Is(<<"2", "+", "3", ")">>) => error = "Mismatched parentheses"

C2_Witness ==
    /\ Is(<<"(", "2", "+", "3">>)
    /\ Unbalanced(tokens)
    /\ error = "Mismatched parentheses"

AllFinite(s) == \A n \in 1..Len(s) : IsFinite(s[n])

\* C3: an RPN step that applies '/' (both operands present) with a right
\* operand equal to zero ends the call with 'Division by zero' and no
\* value; no operand and no returned value is ever the non-finite outcome
\* of a division by zero, and 5/0 and 5/(3-3) fail with that error.
C3_DivisionByZeroThrows ==
    /\ [][(/\ pc = "rpn" /\ r <= Len(output)
           /\ IsOp(output[r]) /\ output[r].value = "/"
           /\ Len(stack) >= 2 /\ Last(stack)[1] = 0)
          => (pc' = "done" /\ error' = "Division by zero" /\ result' = <<>>)]_vars
    /\ [](AllFinite(stack) /\ AllFinite(result))
    /\ [](Is(<<"5", "/", "0">>) => error = "Division by zero")
    /\ [](Is(<<"5", "/", "(", "3", "-", "3", ")">>) => error = "Division by zero")
    /\ [](Is(<<"7", "/", "2">>) => result = <<Rat(7, 2)>>)

C3_Witness ==
    /\ Is(<<"5", "/", "(", "3", "-", "3", ")">>)
    /\ error = "Division by zero"
    /\ result = <<>>

\* C10: evaluateExpression returns a number only when the token sequence is
\* a grammatical infix expression E ::= Number | E op E | '(' E ')'.
C10_ReturnsOnlyForGrammatical ==
    (pc = "done" /\ result # <<>>) => WellFormed(tokens)

\* A '-' at position p of expr is in sign position and is immediately
\* followed by '('.
SignBeforeParenAt(p) ==
    /\ p < len
    /\ expr[p] = "-" /\ expr[p + 1] = "("
    /\ (p = 1 \/ expr[p - 1] \in OpChars \cup {"("})

\* C9: when a '-' in sign position is immediately followed by '(', the call
\* never returns a number: it ends in an error.
C9_NegatedGroupNeverReturns ==
    (pc = "done" /\ \E p \in 1..len : SignBeforeParenAt(p)) => result = <<>>

(***************************************************************************)
(* The tokenizer's treatment of '-' and of numeric literals                *)
(***************************************************************************)
\* The maximal run of digits and '.' that starts at position p of expr.
MaxRunFrom(p) ==
    LET e == CHOOSE q \in p..(len + 1) :
                 /\ \A x \in p..(q - 1) : expr[x] \in NumChars
                 /\ (q = len + 1 \/ expr[q] \notin NumChars)
    IN  SubSeq(expr, p, e - 1)

\* A run of digits and '.' that JavaScript reads as a number.
IsLiteralRun(run) ==
    /\ CountOf(run, Digits) >= 1
    /\ CountOf(run, {"."}) <= 1

AtMinus == pc = "tokenize" /\ i <= len /\ expr[i] = "-"

InSignPosition == i = 1 \/ IsOp(Last(tokens)) \/ IsOpen(Last(tokens))

AfterOperand == i > 1 /\ (IsNumber(Last(tokens)) \/ IsClose(Last(tokens)))

FoldedIntoNumber ==
    /\ Len(tokens') = Len(tokens) + 1
    /\ SubSeq(tokens', 1, Len(tokens)) = tokens
    /\ IsNumber(Last(tokens'))
    /\ Last(texts') = <<"-">> \o MaxRunFrom(i + 1)
    /\ i' = i + Len(Last(texts'))

EmittedAsOperator ==
    /\ Len(tokens') = Len(tokens) + 1
    /\ SubSeq(tokens', 1, Len(tokens)) = tokens
    /\ IsOp(Last(tokens')) /\ Last(tokens').value = "-"
    /\ i' = i + 1

MinusExamples ==
    /\ Is(<<"5", "-", "1", "2">>) => result = <<IntNum(-7)>>
    /\ Is(<<"-", "3", "+", "5">>) => result = <<IntNum(2)>>
    /\ Is(<<"2", "*", "-", "3">>) => result = <<IntNum(-6)>>

\* C4 as stated: a '-' becomes part of a single negative Number token exactly
\* when it is in sign position and at least one digit or '.' follows it; a '-'
\* after a Number or ')' is always emitted as a binary Operator token; so
\* 5-12 is -7, -3+5 is 2 and 2*-3 is -6.
C4_Original ==
    /\ [][AtMinus =>
            /\ FoldedIntoNumber <=>
                  (InSignPosition /\ i < len /\ expr[i + 1] \in NumChars)
            /\ AfterOperand => EmittedAsOperator]_vars
    /\ []MinusExamples

\* C4 amended: a '-' becomes part of a single negative Number token exactly
\* when it is in sign position and the maximal run of digits and '.' after it
\* is a numeric literal (a digit, at most one '.'); when a digit or '.'
\* follows but the run is no literal the call fails with 'Invalid number';
\* a '-' in sign position with no digit or '.' after it, and every '-' after
\* a Number or ')', is emitted as an Operator token.
C4_SignFolding ==
    /\ [][AtMinus =>
            /\ FoldedIntoNumber <=>
                  (InSignPosition /\ IsLiteralRun(MaxRunFrom(i + 1)))
            /\ (InSignPosition /\ MaxRunFrom(i + 1) # <<>>
                  /\ ~IsLiteralRun(MaxRunFrom(i + 1)))
                  => (pc' = "done" /\ error' = "Invalid number" /\ result' = <<>>)
            /\ (InSignPosition /\ MaxRunFrom(i + 1) = <<>>) => EmittedAsOperator
            /\ AfterOperand => EmittedAsOperator]_vars
    /\ []MinusExamples

C4_Witness ==
    /\ Is(<<"2", "*", "-", "3">>)
    /\ Len(tokens) = 3 /\ IsNumber(tokens[3]) /\ texts[3] = <<"-", "3">>
    /\ result = <<IntNum(-6)>>

RECURSIVE Concat(_)
Concat(ss) == IF ss = <<>> THEN <<>> ELSE Head(ss) \o Concat(Tail(ss))

\* The position in expr of the first character of token t.
StartOf(t) == 1 + Len(Concat(SubSeq(texts, 1, t - 1)))

Unsigned(s) == IF s # <<>> /\ Head(s) = "-" THEN Tail(s) ELSE s

\* [0-9]+(\.[0-9]+)? with an optional leading '-'
StrictLiteral(s) ==
    LET b == Unsigned(s)
    IN  /\ b # <<>>
        /\ \A n \in 1..Len(b) : b[n] \in NumChars
        /\ Head(b) \in Digits /\ Last(b) \in Digits
        /\ CountOf(b, {"."}) <= 1

\* an optional leading '-', then digits and at most one '.', with a digit
LooseLiteral(s) ==
    LET b == Unsigned(s)
    IN  /\ \A n \in 1..Len(b) : b[n] \in NumChars
        /\ IsLiteralRun(b)

SignMinusToken(t) ==
    /\ IsOp(tokens[t]) /\ tokens[t].value = "-"
    /\ (t = 1 \/ IsOp(tokens[t - 1]) \/ IsOpen(tokens[t - 1]))

\* C7 as stated: every Number token comes from text matching
\* [0-9]+(\.[0-9]+)? with an optional '-', and a '-' in sign position is
\* never emitted as a standalone Operator token.
C7_Original ==
    \A t \in 1..Len(tokens) :
        /\ IsNumber(tokens[t]) => StrictLiteral(texts[t])
        /\ ~SignMinusToken(t)

\* C7 amended: the tokens' texts are consecutive pieces of expr; every
\* Number token comes from an optional single '-' and then a run of digits
\* and '.' with at least one digit and at most one '.' (5. and .5 included);
\* a '-' in sign position is emitted as a standalone Operator token only
\* when no digit or '.' follows it.
C7_NumberTokenText ==
    /\ Len(texts) = Len(tokens)
    /\ Concat(texts) = SubSeq(expr, 1, Len(Concat(texts)))
    /\ pc = "tokenize" => Len(Concat(texts)) = i - 1
    /\ \A t \in 1..Len(tokens) :
        /\ IsNumber(tokens[t]) =>
              /\ LooseLiteral(texts[t])
              /\ tokens[t].value = Number(texts[t])
        /\ ~IsNumber(tokens[t]) => texts[t] = <<tokens[t].value>>
        /\ SignMinusToken(t) =>
              (StartOf(t) = len \/ expr[StartOf(t) + 1] \notin NumChars)

C7_Witness ==
    \E t \in 1..Len(tokens) :
        /\ IsNumber(tokens[t])
        /\ texts[t] = <<"-", ".", "3">>
        /\ ~StrictLiteral(texts[t])

\* The run the tokenizer was reading when it threw.
FailedRun == MaxRunFrom(IF expr[i] = "-" THEN i + 1 ELSE i)

\* expr[p..q] is a maximal run of digits and '.'.
IsMaxRun(p, q) ==
    /\ p <= q
    /\ \A x \in p..q : expr[x] \in NumChars
    /\ (p = 1 \/ expr[p - 1] \notin NumChars)
    /\ (q = len \/ expr[q + 1] \notin NumChars)

HasBadRun ==
    \E p, q \in 1..len : IsMaxRun(p, q) /\ ~IsLiteralRun(SubSeq(expr, p, q))

\* C8 as stated: a run of digits and '.' with more than one '.' is accepted
\* as a single Number token and does not fail with an invalid-number error.
C8_Original ==
    (pc = "done" /\ error = "Invalid number") => CountOf(FailedRun, {"."}) <= 1

\* C8 amended: the tokenizer consumes a maximal run of digits and '.' as one
\* literal and validates it: the call fails with 'Invalid number' exactly
\* when expr holds a maximal run with more than one '.' or with no digit
\* (so 1.2.3 fails); every Number token is a whole maximal run with at most
\* one '.'.
C8_RunValidated ==
    /\ pc = "done" => (error = "Invalid number" <=> HasBadRun)
    /\ (pc = "done" /\ error = "Invalid number") =>
          ~Tokenized /\ ~IsLiteralRun(FailedRun)
    /\ \A t \in 1..Len(tokens) :
          IsNumber(tokens[t]) =>
              LET p == StartOf(t) + (IF Head(texts[t]) = "-" THEN 1 ELSE 0)
                  q == StartOf(t) + Len(texts[t]) - 1
              IN  IsMaxRun(p, q) /\ CountOf(texts[t], {"."}) <= 1
    /\ Is(<<"1", ".", "2", ".", "3">>) => error = "Invalid number"

C8_Witness ==
    /\ Is(<<"1", ".", "2", ".", "3">>)
    /\ CountOf(FailedRun, {"."}) = 2
    /\ error = "Invalid number"

(***************************************************************************)
(* Termination                                                             *)
(***************************************************************************)
\* A bound on the steps evaluateExpression has left; each phase's share is
\* at most PhaseMax.
PhaseMax == 2 * len + 2

Rank ==
    CASE pc = "tokenize" -> 3 * PhaseMax + (len + 1 - i) + 1
      [] pc = "shunt"    -> 2 * PhaseMax + 2 * (Len(tokens) + 1 - k) + Len(ops) + 1
      [] pc = "drain"    -> PhaseMax + Len(ops) + 1
      [] pc = "rpn"      -> (Len(output) + 1 - r) + 1
      [] OTHER           -> 0

Threw == pc' = "done" /\ error' # "" /\ result' = <<>>

\* C6: evaluateExpression terminates with exactly one outcome: every call
\* reaches its end.  Every step
\* lowers Rank, which is never negative, and a step is possible until the
\* call has ended; a tokenizer iteration throws or advances i; the
\* shunting-yard and RPN loops take each token once, and a shunting-yard
\* step that stays on its token shrinks the operator stack; at the end
\* either a number was returned or an error was thrown, never both.
C6_Terminates ==
    /\ <>(pc = "done")
    /\ [][Rank' < Rank]_vars
    /\ [](Rank >= 0)
    /\ [](pc # "done" => ENABLED Next)
    /\ [][(pc = "tokenize" /\ i <= len) => (Threw \/ (pc' = pc /\ i' > i))]_vars
    /\ [][pc = "shunt" =>
            \/ Threw
            \/ pc' = "drain" /\ k = Len(tokens) + 1
            \/ pc' = pc /\ k' = k + 1
            \/ pc' = pc /\ k' = k /\ Len(ops') < Len(ops)]_vars
    /\ [][pc = "drain" =>
            \/ Threw
            \/ pc' = "rpn" /\ ops = <<>>
            \/ pc' = pc /\ Len(ops') < Len(ops)]_vars
    /\ [][pc = "rpn" =>
            \/ Threw
            \/ pc' = "done" /\ r = Len(output) + 1
            \/ pc' = pc /\ r' = r + 1]_vars
    /\ [](pc = "done" => ((result = <<>>) <=> (error # "")))
    /\ [](pc # "done" => (result = <<>> /\ error = ""))

C6_Witness ==
    /\ pc = "done" /\ Rank = 0
    /\ expr = <<"(", "2", "+", "3", ")", "*", "4">>
    /\ r = Len(output) + 1 /\ k = Len(tokens) + 1 /\ i = len + 1

(***************************************************************************)
(* QueryProcessor's handling of a failed evaluation                        *)
(***************************************************************************)
Keywords == {"shakespeare", "gameid", "playerid", "your name", "name", "my andrewid"}

EvaluationFailed == pc = "done" /\ (error # "" \/ ~AllFinite(result))

\* C5: QueryProcessor always returns a string and never throws; when
\* evaluateExpression was called and failed (any error, or a value that is
\* not finite) the failure is swallowed and the response is what the
\* keyword handlers return for the query, the empty string when the query
\* holds no keyword.
C5_FailureFallsThrough ==
    /\ qpc \in {"start", "eval", "returned"}
    /\ qpc # "returned" => (response = <<>> /\ ENABLED NextQP)
    /\ qpc = "returned" =>
          /\ Len(response) = 1 /\ response[1].kind \in {"text", "number"}
          /\ ~ENABLED NextQP
    /\ (qpc = "returned" /\ EvaluationFailed) =>
          /\ response[1].kind = "text"
          /\ response[1] = KeywordResponse(query)
          /\ (\A kw \in Keywords : ~Includes(query, kw)) => response[1].value = ""
    /\ (qpc = "eval" /\ pc = "done") => ValidChars(expr)

C5_Witness ==
    /\ qpc = "returned"
    /\ query = <<"your name", " ", "5", " ", "divided by", " ",
                 "(", "3", " ", "minus", " ", "3", ")", "?">>
    /\ expr = <<"5", "/", "(", "3", "-", "3", ")">>
    /\ error = "Division by zero"
    /\ response = <<Text("Rohan")>>

=============================================================================
